---- MODULE Spec2Model ----
(***************************************************************************)
(* Model of the reporting dashboard in src/app.py: the load-time           *)
(* preprocessing of data.csv (split / explode / sum / chart builders), the *)
(* two Dash callbacks update_bar_chart and generate_pdf, and the           *)
(* dispatcher that calls them (once at page load with the components'      *)
(* initial values, then once per dropdown selection or button click).      *)
(*                                                                         *)
(* Conventions.  A string of the CSV is a sequence of one-character        *)
(* strings.  Sector_Balance is an integer number of cents (binary          *)
(* floating-point rounding is not modelled).  Rows are numbered from 1,    *)
(* pandas numbers them from 0.  Calls into plotly, kaleido and reportlab   *)
(* are taken to return normally.                                           *)
(***************************************************************************)
EXTENDS Integers, Sequences, FiniteSets, TLC

VARIABLES
    csv,                \* the rows of data.csv as text
    df,                 \* module global df, after line 21
    df_exploded,        \* module global df_exploded
    total_asset_value,  \* module global total_asset_value
    fig_pie,            \* module global fig_pie
    fig_line,           \* module global fig_line
    fig_asset_class,    \* module global fig_asset_class
    fig_bar,            \* module global fig_bar (the default bar chart)
    dropdown_value,     \* property 'value' of component 'cluster-dropdown'
    n_clicks,           \* property 'n_clicks' of 'generate-report-button'
    bar_plot,           \* property 'figure' of component 'bar-plot'
    download_pdf,       \* property 'data' of component 'download-pdf'
    pending,            \* callbacks whose page-load call is still to come
    user_selected,      \* history: a user selection event has occurred
    unmatched_seen      \* history: a selection matched no record

vars == <<csv, df, df_exploded, total_asset_value, fig_pie, fig_line,
          fig_asset_class, fig_bar, dropdown_value, n_clicks, bar_plot,
          download_pdf, pending, user_selected, unmatched_seen>>

dataset == <<csv, df, df_exploded, total_asset_value, fig_pie, fig_line,
             fig_asset_class, fig_bar>>

----------------------------------------------------------------------------
(* Bounds and input sets *)

MaxRows == 2
MaxClicks == 2

\* characters that occur in the asset-class column, in code-point order
Alphabet == <<",", "x", "y">>

\* the asset-class cells a row of data.csv may hold; <<>> is an empty cell
RawFields == { <<>>,
               <<"y">>,
               <<",">>,
               <<"x", ",", "y">>,
               <<"y", ",", "x">> }

DataLabels == {"A", "B"}
Balances == {5000, 125050}
Exposures == {2}

\* Python's None, as a dropdown value and as a callback result
None == "None"
\* labels a selection request may carry: the loaded ones, one that no
\* record has, and None (the dropdown cleared)
SelectValues == DataLabels \cup {"C", None}

\* n_clicks = None
NoClicks == -1

\* pandas' missing value in the asset-class column
NaN == <<"nan">>

CsvRows == [Cluster_Label : DataLabels, Sector_Balance : Balances,
            Regional_Exposure : Exposures, Asset_Class_Distribution : RawFields]

----------------------------------------------------------------------------
(* Helpers for sequences *)

Range(s) == {s[i] : i \in 1..Len(s)}

Column(d, f) == [i \in 1..Len(d) |-> d[i][f]]

CodePoint(c) == CHOOSE i \in 1..Len(Alphabet) : Alphabet[i] = c

\* Python's str < str
RECURSIVE LexLess(_, _)
LexLess(a, b) ==
    IF a = <<>> THEN b # <<>>
    ELSE IF b = <<>> THEN FALSE
    ELSE IF Head(a) = Head(b) THEN LexLess(Tail(a), Tail(b))
    ELSE CodePoint(Head(a)) < CodePoint(Head(b))

RECURSIVE Insert(_, _)
Insert(s, t) ==
    IF s = <<>> THEN <<t>>
    ELSE IF LexLess(t, Head(s)) THEN <<t>> \o s
    ELSE <<Head(s)>> \o Insert(Tail(s), t)

\* a builder that leaves the categories in order of first appearance
sorted_asis(s) == s

RECURSIVE sorted(_)
sorted(s) ==
    IF s = <<>> THEN <<>>
    ELSE Insert(sorted(SubSeq(s, 1, Len(s) - 1)), s[Len(s)])

\* Series.unique(): the distinct values in order of first appearance
RECURSIVE unique(_)
unique(s) ==
    IF s = <<>> THEN <<>>
    ELSE LET u == unique(SubSeq(s, 1, Len(s) - 1))
         IN  IF s[Len(s)] \in Range(u) THEN u ELSE Append(u, s[Len(s)])

----------------------------------------------------------------------------
(* Load-time preprocessing, lines 17-25 *)

\* pd.read_csv: an empty cell of a text column is read as NaN
read_csv(file) ==
    [i \in 1..Len(file) |->
        [file[i] EXCEPT !.Asset_Class_Distribution =
            IF @ = <<>> THEN NaN ELSE @]]

fillna(v) == IF v = NaN THEN <<>> ELSE v

\* str.split(','): always at least one piece; ''.split(',') is ['']
RECURSIVE split(_)
split(s) ==
    IF \A i \in 1..Len(s) : s[i] # ","
    THEN <<s>>
    ELSE LET i == CHOOSE j \in 1..Len(s) :
                      s[j] = "," /\ \A k \in 1..(j - 1) : s[k] # ","
         IN  <<SubSeq(s, 1, i - 1)>> \o split(SubSeq(s, i + 1, Len(s)))

\* line 21
SplitColumn(d) ==
    [i \in 1..Len(d) |->
        [d[i] EXCEPT !.Asset_Class_Distribution = split(fillna(@))]]

\* an expansion that keeps only the first element of each list
ExplodeRow_first(d, i) ==
    <<[index |-> i,
       Cluster_Label |-> d[i].Cluster_Label,
       Sector_Balance |-> d[i].Sector_Balance,
       Regional_Exposure |-> d[i].Regional_Exposure,
       Asset_Class_Distribution |->
           IF d[i].Asset_Class_Distribution = <<>> THEN NaN
           ELSE d[i].Asset_Class_Distribution[1]]>>

\* the rows DataFrame.explode makes of row i of d: one per list element,
\* one with NaN for an empty list; every row keeps the index of its source
ExplodeRow(d, i) ==
    LET r == d[i]
        l == r.Asset_Class_Distribution
        row(t) == [index |-> i,
                   Cluster_Label |-> r.Cluster_Label,
                   Sector_Balance |-> r.Sector_Balance,
                   Regional_Exposure |-> r.Regional_Exposure,
                   Asset_Class_Distribution |-> t]
    IN  IF l = <<>> THEN <<row(NaN)>>
        ELSE [k \in 1..Len(l) |-> row(l[k])]

RECURSIVE ExplodeUpTo(_, _)
ExplodeUpTo(d, n) ==
    IF n = 0 THEN <<>> ELSE ExplodeUpTo(d, n - 1) \o ExplodeRow(d, n)

\* line 22
explode(d) == ExplodeUpTo(d, Len(d))

\* Series.sum(): left to right over the column
RECURSIVE SeriesSum(_)
SeriesSum(s) ==
    IF s = <<>> THEN 0 ELSE SeriesSum(SubSeq(s, 1, Len(s) - 1)) + s[Len(s)]

\* a total taken over the expanded view, counting a record once per token
TotalAssetValue_exploded(d) == SeriesSum(Column(explode(d), "Sector_Balance"))

\* line 25
TotalAssetValue(d) == SeriesSum(Column(d, "Sector_Balance"))

----------------------------------------------------------------------------
(* Chart builders, lines 27-49 *)

\* line 28
PieChart(d) ==
    [title |-> "Sector Balance Distribution",
     names |-> Column(d, "Cluster_Label"),
     values |-> Column(d, "Sector_Balance")]

\* lines 31-35
LineChart(d) ==
    [title |-> "Cluster Label vs Regional Exposure",
     x |-> Column(d, "Cluster_Label"),
     y |-> Column(d, "Regional_Exposure")]

\* lines 38-43
AssetClassChart(d) ==
    [title |-> "Cluster Label vs Number of Elements in Asset Class Distribution",
     x |-> Column(d, "Cluster_Label"),
     y |-> [i \in 1..Len(d) |-> Len(d[i].Asset_Class_Distribution)]]

\* lines 46-49: px.bar with x only draws one segment of height 1 per row
DefaultBarChart(e) ==
    LET col == Column(e, "Asset_Class_Distribution")
    IN  [title |-> <<"Asset Class Distribution">>,
         x |-> col,
         y |-> [i \in 1..Len(col) |-> 1],
         category_orders |-> sorted(unique(col))]

----------------------------------------------------------------------------
(* update_bar_chart, lines 107-122 *)

\* a filter that keeps every row
FilterLabel_all(e, selected_cluster) == e

\* df_exploded[df_exploded['Cluster_Label'] == selected_cluster]
RECURSIVE FilterLabel(_, _)
FilterLabel(e, selected_cluster) ==
    IF e = <<>> THEN <<>>
    ELSE LET rest == FilterLabel(SubSeq(e, 1, Len(e) - 1), selected_cluster)
         IN  IF e[Len(e)].Cluster_Label = selected_cluster
             THEN Append(rest, e[Len(e)])
             ELSE rest

Occurrences(col, t) == Cardinality({i \in 1..Len(col) : col[i] = t})

RECURSIVE InsertByCount(_, _)
InsertByCount(s, r) ==
    IF s = <<>> THEN <<r>>
    ELSE IF r.Count > Head(s).Count THEN <<r>> \o s
    ELSE <<Head(s)>> \o InsertByCount(Tail(s), r)

RECURSIVE SortByCount(_)
SortByCount(s) ==
    IF s = <<>> THEN <<>>
    ELSE InsertByCount(SortByCount(SubSeq(s, 1, Len(s) - 1)), s[Len(s)])

\* Series.value_counts().reset_index(): one row per distinct non-missing
\* value, most frequent first
value_counts(col) ==
    LET u == unique(SelectSeq(col, LAMBDA t : t # NaN))
    IN  SortByCount([k \in 1..Len(u) |->
            [Asset_Class_Distribution |-> u[k], Count |-> Occurrences(col, u[k])]])

\* lines 109-120, as a function of the expanded view e
SelectedBarChart(e, selected_cluster) ==
    LET filtered_data == FilterLabel(e, selected_cluster)
        asset_class_counts ==
            value_counts(Column(filtered_data, "Asset_Class_Distribution"))
        tokens == Column(asset_class_counts, "Asset_Class_Distribution")
    IN  [title |-> <<"Asset Class Distribution values for Cluster", selected_cluster>>,
         x |-> tokens,
         y |-> Column(asset_class_counts, "Count"),
         category_orders |-> sorted(unique(tokens))]

\* a handler that falls back to the default chart when nothing matches
update_bar_chart_fallback(selected_cluster) ==
    IF FilterLabel(df_exploded, selected_cluster) = <<>>
    THEN fig_bar
    ELSE SelectedBarChart(df_exploded, selected_cluster)

update_bar_chart(selected_cluster) == SelectedBarChart(df_exploded, selected_cluster)

----------------------------------------------------------------------------
(* generate_pdf, lines 130-162 *)

\* a guard that tests only for None
Truthy_notNone(n) == n # NoClicks

\* Python truth value of n_clicks: None and 0 are false
Truthy(n) == n # NoClicks /\ n # 0

\* pio.write_image(fig, buf, format='png')
write_image(fig) == [format |-> "png", figure |-> fig]

RECURSIVE Groups(_)
Groups(n) == IF n < 1000 THEN <<n>> ELSE Append(Groups(n \div 1000), n % 1000)

\* f"{v:,.2f}" of an amount of v cents: sign, groups of three digits, cents
Format(v) ==
    LET a == IF v < 0 THEN 0 - v ELSE v
    IN  [negative |-> v < 0, groups |-> Groups(a \div 100), cents |-> a % 100]

drawImage(img, px, py) == [image |-> img, x |-> px, y |-> py, width |-> 400, height |-> 300]

generate_pdf(clicks) ==
    IF Truthy(clicks)
    THEN [filename |-> "report.pdf",
          content |->
            [pagesize |-> "landscape(letter)",
             strings |-> << <<"Data Visualization Report">>,
                            <<"Total Asset Value: $", Format(total_asset_value)>>,
                            <<"This is a sample report generated using ReportLab.">> >>,
             images |-> << drawImage(write_image(fig_pie), 100, 250),
                           drawImage(write_image(fig_line), 550, 250),
                           drawImage(write_image(fig_asset_class), 100, 50),
                           drawImage(write_image(fig_bar), 550, 50) >>]]
    ELSE [filename |-> None]

----------------------------------------------------------------------------
(* The program *)

\* a dropdown that starts on the last label of the file
DefaultDropdownValue_last(d) == d[Len(d)].Cluster_Label

\* line 88: the dropdown starts on the first label of the file
DefaultDropdownValue(d) == d[1].Cluster_Label

\* data.csv files of 1..MaxRows rows (line 88 needs a first row)
CsvFiles == UNION {[1..n -> CsvRows] : n \in 1..MaxRows}

\* module import, lines 17-99; the button's n_clicks starts as None or,
\* where the component default is sent, as 0
Init ==
    /\ csv \in CsvFiles
    /\ df = SplitColumn(read_csv(csv))
    /\ df_exploded = explode(df)
    /\ total_asset_value = TotalAssetValue(df)
    /\ fig_pie = PieChart(df)
    /\ fig_line = LineChart(df)
    /\ fig_asset_class = AssetClassChart(df)
    /\ fig_bar = DefaultBarChart(df_exploded)
    /\ dropdown_value = DefaultDropdownValue(df)
    /\ n_clicks \in {NoClicks, 0}
    /\ bar_plot = fig_bar
    /\ download_pdf = [filename |-> None]
    /\ pending = {"update_bar_chart", "generate_pdf"}
    /\ user_selected = FALSE
    /\ unmatched_seen = FALSE

\* page load: Dash calls update_bar_chart with the dropdown's initial value
InitialBarCall ==
    /\ "update_bar_chart" \in pending
    /\ pending' = pending \ {"update_bar_chart"}
    /\ bar_plot' = update_bar_chart(dropdown_value)
    /\ UNCHANGED <<dataset, dropdown_value, n_clicks, download_pdf, user_selected,
                   unmatched_seen>>

\* page load: Dash calls generate_pdf with the button's initial n_clicks
InitialPdfCall ==
    /\ "generate_pdf" \in pending
    /\ pending' = pending \ {"generate_pdf"}
    /\ download_pdf' = generate_pdf(n_clicks)
    /\ UNCHANGED <<dataset, dropdown_value, n_clicks, bar_plot, user_selected,
                   unmatched_seen>>

\* a handler that filters the shared expanded view in place
SelectCluster_inplace(v) ==
    /\ pending = {}
    /\ v # dropdown_value
    /\ dropdown_value' = v
    /\ df_exploded' = FilterLabel(df_exploded, v)
    /\ bar_plot' = SelectedBarChart(df_exploded', v)
    /\ user_selected' = TRUE
    /\ unmatched_seen' = (unmatched_seen \/ v \notin Range(Column(df, "Cluster_Label")))
    /\ UNCHANGED <<csv, df, total_asset_value, fig_pie, fig_line, fig_asset_class,
                   fig_bar, n_clicks, download_pdf, pending>>

\* the user picks v in the dropdown (or clears it): update_bar_chart(v)
SelectCluster(v) ==
    /\ pending = {}
    /\ v # dropdown_value
    /\ dropdown_value' = v
    /\ bar_plot' = update_bar_chart(v)
    /\ user_selected' = TRUE
    /\ unmatched_seen' = (unmatched_seen \/ v \notin Range(Column(df, "Cluster_Label")))
    /\ UNCHANGED <<dataset, n_clicks, download_pdf, pending>>

\* the user clicks "Generate Report": generate_pdf(n_clicks)
ClickButton ==
    /\ pending = {}
    /\ n_clicks < MaxClicks
    /\ n_clicks' = IF n_clicks = NoClicks THEN 1 ELSE n_clicks + 1
    /\ download_pdf' = generate_pdf(n_clicks')
    /\ UNCHANGED <<dataset, dropdown_value, bar_plot, pending, user_selected,
                   unmatched_seen>>

Select == \E v \in SelectValues : SelectCluster(v)

Next == InitialBarCall \/ InitialPdfCall \/ Select \/ ClickButton

Spec == Init /\ [][Next]_vars

----------------------------------------------------------------------------
(* Properties *)

Tokens(e) == {e[i].Asset_Class_Distribution : i \in 1..Len(e)}

RowsOf(L) == {i \in 1..Len(df_exploded) : df_exploded[i].Cluster_Label = L}

NoMatch(L) == RowsOf(L) = {}

IsBarChart(c) ==
    /\ DOMAIN c = {"title", "x", "y", "category_orders"}
    /\ Len(c.x) = Len(c.y)

\* chart c has one bar per distinct token of the expanded rows labelled L,
\* as high as the number of those rows that carry the token
BarsAre(c, L) ==
    /\ IsBarChart(c)
    /\ Range(c.x) = {df_exploded[i].Asset_Class_Distribution : i \in RowsOf(L)}
    /\ \A j, k \in 1..Len(c.x) : c.x[j] = c.x[k] => j = k
    /\ \A k \in 1..Len(c.x) :
           c.y[k] = Cardinality({i \in RowsOf(L) :
                                    df_exploded[i].Asset_Class_Distribution = c.x[k]})

\* order is strictly ascending and holds exactly the tokens of toks
SortedDistinct(order, toks) ==
    /\ Range(order) = toks
    /\ \A k \in 1..(Len(order) - 1) : LexLess(order[k], order[k + 1])

RowOrders(n) == {p \in [1..n -> 1..n] : \A i, j \in 1..n : p[i] = p[j] => i = j}

Load(file) == explode(SplitColumn(read_csv(file)))

ExportStep == n_clicks' # n_clicks
SelectStep == dropdown_value' # dropdown_value

\* C1: an export builds the report from the charts currently displayed: the
\* bar image placed in the report is the bar chart shown at that moment.
C1_ExportUsesDisplayedBar ==
    [][ExportStep =>
          download_pdf'.content.images[4].image = write_image(bar_plot')]_vars

\* C2: after update_bar_chart(L) the bars are exactly the distinct tokens of
\* the expanded records labelled L, each as high as the number of those
\* records carrying it; records with another label contribute nothing.
C2_BarsOfSelectedLabel ==
    "update_bar_chart" \notin pending => BarsAre(bar_plot, dropdown_value)

C2_Witness ==
    /\ user_selected
    /\ Len(bar_plot.x) = 2
    /\ \E i \in 1..Len(df_exploded) :
          /\ df_exploded[i].Cluster_Label # dropdown_value
          /\ df_exploded[i].Asset_Class_Distribution \in Range(bar_plot.x)

\* C3: a selection that matches no record yields a chart with zero bars and
\* zero categories, and the selections and exports that follow it behave as
\* usual.
C3_UnmatchedSelectionIsEmptyChart ==
    [][/\ (SelectStep /\ NoMatch(dropdown_value')) =>
             /\ IsBarChart(bar_plot')
             /\ bar_plot'.x = <<>>
             /\ bar_plot'.category_orders = <<>>
       /\ unmatched_seen =>
             /\ SelectStep => BarsAre(bar_plot', dropdown_value')
             /\ ExportStep => download_pdf'.filename = "report.pdf"]_vars

C3_Witness ==
    /\ unmatched_seen
    /\ ~NoMatch(dropdown_value)
    /\ bar_plot.x # <<>>
    /\ download_pdf.filename = "report.pdf"

\* C4 (as stated): as long as no user selection has occurred, the bar chart
\* shown is the default one.
C4_DefaultUntilSelection == ~user_selected => bar_plot = fig_bar

\* C4 (amended): with no user selection yet, the bar chart shown is the
\* default one until the page-load call of the filter handler, and from then
\* on the chart of the dropdown's default value, the first label of the
\* file; what is shown is always a bar chart.
C4_DefaultThenFirstLabel ==
    /\ IsBarChart(bar_plot)
    /\ ~user_selected =>
          IF "update_bar_chart" \in pending
          THEN bar_plot = fig_bar
          ELSE /\ BarsAre(bar_plot, csv[1].Cluster_Label)
               /\ bar_plot.title[2] = csv[1].Cluster_Label

C4_Witness ==
    /\ ~user_selected
    /\ "update_bar_chart" \notin pending
    /\ bar_plot # fig_bar
    /\ Len(csv) = 2
    /\ csv[1].Cluster_Label # csv[2].Cluster_Label

\* C5: generate_pdf called without an activation (n_clicks None or 0) gives
\* no download; called with n_clicks >= 1 it gives an artifact named
\* report.pdf.  This settles the guard of line 131 only: that the library
\* calls of lines 139-159 return is taken for granted here.
C5_ArtifactOnlyAfterActivation ==
    IF "generate_pdf" \in pending \/ n_clicks = NoClicks \/ n_clicks = 0
    THEN download_pdf = [filename |-> None]
    ELSE /\ download_pdf.filename = "report.pdf"
         /\ Len(download_pdf.content.images) = 4

C5_Witness ==
    /\ n_clicks = 2
    /\ download_pdf.filename = "report.pdf"

\* C6: an empty asset-class cell is loaded as a token sequence of length 0,
\* and the Line B value of that record is 0.
C6_EmptyCellIsEmptySequence ==
    \A i \in 1..Len(csv) :
        csv[i].Asset_Class_Distribution = <<>> =>
            /\ Len(df[i].Asset_Class_Distribution) = 0
            /\ fig_asset_class.y[i] = 0

\* C7: the expanded view holds, for every record in turn, one row per token
\* in order (one row with an empty token for a record without tokens), equal
\* to the record in every other field; its size is the sum of max(N, 1).
C7_RowExpander ==
    LET rowsOf(i) == SelectSeq(df_exploded, LAMBDA r : r.index = i)
        size(i) == IF df[i].Asset_Class_Distribution = <<>>
                   THEN 1 ELSE Len(df[i].Asset_Class_Distribution)
        lone(i) == explode(<<[df[i] EXCEPT !.Asset_Class_Distribution = <<>>]>>)
    IN  /\ \A i \in 1..Len(df) :
              /\ Len(rowsOf(i)) = size(i)
              /\ \A k \in 1..Len(rowsOf(i)) :
                    /\ rowsOf(i)[k].Cluster_Label = df[i].Cluster_Label
                    /\ rowsOf(i)[k].Sector_Balance = df[i].Sector_Balance
                    /\ rowsOf(i)[k].Regional_Exposure = df[i].Regional_Exposure
                    /\ IF df[i].Asset_Class_Distribution = <<>>
                       THEN rowsOf(i)[k].Asset_Class_Distribution \in {NaN, <<>>}
                       ELSE rowsOf(i)[k].Asset_Class_Distribution =
                                df[i].Asset_Class_Distribution[k]
              /\ Len(lone(i)) = 1
              /\ lone(i)[1].Asset_Class_Distribution = NaN
              /\ lone(i)[1].Cluster_Label = df[i].Cluster_Label
        /\ \A j \in 1..Len(df_exploded) : df_exploded[j].index \in 1..Len(df)
        /\ \A j \in 1..(Len(df_exploded) - 1) :
              df_exploded[j].index <= df_exploded[j + 1].index
        /\ Len(df_exploded) = SeriesSum([i \in 1..Len(df) |-> size(i)])

C7_Witness ==
    /\ \E i \in 1..Len(df) :
          /\ Len(df[i].Asset_Class_Distribution) = 2
          /\ df[i].Asset_Class_Distribution[1] # df[i].Asset_Class_Distribution[2]
    /\ \E i \in 1..Len(df) : csv[i].Asset_Class_Distribution = <<>>
    /\ Len(df_exploded) = 3

\* C8: the category order of the default bar chart and of every filtered
\* bar chart is the ascending sequence of the distinct tokens of the chart's
\* input view, and is the same for every order of the input rows.
C8_CategoryOrderSorted ==
    /\ SortedDistinct(fig_bar.category_orders, Tokens(df_exploded))
    /\ "update_bar_chart" \notin pending =>
          SortedDistinct(bar_plot.category_orders,
                         {df_exploded[i].Asset_Class_Distribution :
                              i \in RowsOf(dropdown_value)})
    \* the builders applied to the file in every row order; this involves the
    \* file alone and is evaluated once per file, before the page-load calls
    /\ pending = {"update_bar_chart", "generate_pdf"} =>
          \A p \in RowOrders(Len(csv)) :
              LET e == Load([i \in 1..Len(csv) |-> csv[p[i]]])
              IN  /\ DefaultBarChart(e).category_orders = fig_bar.category_orders
                  /\ \A L \in SelectValues :
                        SelectedBarChart(e, L).category_orders =
                            update_bar_chart(L).category_orders

C8_Witness ==
    /\ "update_bar_chart" \notin pending
    /\ Len(bar_plot.category_orders) = 2
    /\ bar_plot.category_orders # bar_plot.x
    /\ fig_bar.category_orders # unique(fig_bar.x)

\* C9: a selection changes only the displayed bar chart (and the dropdown),
\* an export only the download (and the click count); the records, the
\* expanded view, the pie chart, Line A and Line B stay as loaded.
C9_HandlersLeaveDatasetAlone ==
    [][/\ dataset' = dataset
       /\ df' = SplitColumn(read_csv(csv))
       /\ df_exploded' = explode(df')
       /\ SelectStep => UNCHANGED <<n_clicks, download_pdf>>
       /\ ExportStep => UNCHANGED <<dropdown_value, bar_plot>>]_vars

C9_Witness ==
    /\ user_selected
    /\ n_clicks = 1
    /\ bar_plot # fig_bar
    /\ Len(df_exploded) > Cardinality(RowsOf(dropdown_value))

====
